---- MODULE Spec2Model ----
(***************************************************************************)
(* The Forge dashboard: a polling observer/operator client in front of a   *)
(* record store (tables forge_features, forge_config, forge_sessions).     *)
(*                                                                         *)
(* The repository holds three dashboards: "app" (src/app/page.tsx),        *)
(* "sessions" (src/unnamed/part_000, lines 1-236) and "queue"              *)
(* (src/unnamed/part_000, lines 238-705).  Each is one operator client     *)
(* with its snapshot and its loadData calls in flight.  The store is       *)
(* written as well by the external worker and by a second operator.        *)
(*                                                                         *)
(* SpecReorder    queue: reordering and adding, a second operator adds.    *)
(* SpecLifecycle  queue: skip, retry, done and delete, the worker builds.  *)
(* SpecAdd        queue: the add form, with inserts that fail.             *)
(* SpecRows       app and sessions: row buttons and the engine switch.     *)
(* SpecParse      parseSpec as a function of its input text.               *)
(* SpecTransitions  all three: skip, retry and done, the worker builds.    *)
(* SpecFailure    queue: handlers whose store call fails.                  *)
(* SpecConverge   queue: polling under fairness, the view catches up.      *)
(* SpecRace       queue: two operators reorder from their own snapshots.   *)
(* SpecCurrent    queue: the worker builds on a reordered store.           *)
(* SpecPollFailure  queue and app: features queries that bring no data.    *)
(* SpecMoveUp     queue: two operators move up a queue of three.           *)
(* SpecOperators  queue and app: every operator action, the worker claims. *)
(* SpecInsert     queue: the add form, texts with and without all parts.   *)
(*                                                                         *)
(* Priorities are JavaScript numbers.  Every value the program writes is   *)
(* an integer or an integer plus one half (the only fractional step is     *)
(* 1.5), so a priority p is held as the integer 2p ("halves").             *)
(* Text is held as a sequence of tokens: a marker ("NAME:"), a word, a     *)
(* blank " " or a line break NL.                                           *)
(***************************************************************************)
EXTENDS Integers, Sequences, FiniteSets, TLC

VARIABLES
    dashboard,        \* which of the repository's three dashboards runs
    forge_features,   \* store: id -> feature record (the rows that exist)
    forge_config,     \* store: key -> string value (the keys that exist)
    forge_sessions,   \* store: session statuses, most recent first
    nextId,           \* store: the id the next insert is given
    clock,            \* number of handler runs so far; stands for "now"
    features,         \* client: useState<Feature[]>, the last loaded snapshot
    sessions,         \* client (sessions dashboard): useState<Session[]>
    enginePaused,     \* client: useState(true)
    autoApprove,      \* client: useState(true)
    skipOnError,      \* client: useState(false)
    loading,          \* client: useState(true)
    selectedFeature,  \* client: useState<string | null>(null)
    showAddForm,      \* client: useState(false)
    specInput,        \* client: useState(''), the text of the add form
    polls,            \* loadData calls in flight
    last,             \* the handler run by the step that led here, with the
                      \* toast it showed; NoRun after any other step
    otherFeatures,    \* the snapshot of a second operator's client
    blockParts,       \* SpecParse: the parts the input text was built from
    parsed            \* SpecParse: the result of parseSpec, once computed

vars == <<dashboard, forge_features, forge_config, forge_sessions, nextId, clock,
          features, sessions, enginePaused, autoApprove, skipOnError, loading,
          selectedFeature, showAddForm, specInput, polls, last,
          otherFeatures, blockParts, parsed>>

storeVars == <<forge_features, forge_config, forge_sessions, nextId, clock>>
\* what no handler of a dashboard touches
otherVars == <<dashboard, otherFeatures, blockParts, parsed>>

\* null / undefined, where the other values are strings
Null == "null"
\* an optional value: None for null / undefined, Some(x) otherwise
None == <<>>
Some(x) == <<x>>
\* selectedFeature === null
NoId == 0
NL == "\n"
SP == " "

\* ------------------------------------------------------------------ bounds

MaxFeatures == 3
MaxClock == 2
MaxPolls == 2
MaxRetry == 1

\* the most instruction lines a block of SpecParse has
MaxLines == 2

\* .limit(5) of the sessions query
SessionLimit == 5

\* --------------------------------------------------------------- numbers

\* A JavaScript number n, in halves.
Num(n) == 2 * n
\* 1.5, in halves
OneAndAHalf == 3
\* the priority of an appended feature when nothing is pending (100)
BaselinePriority == Num(100)

Min(S) == CHOOSE x \in S : \A y \in S : x <= y
Max(S) == CHOOSE x \in S : \A y \in S : x >= y

\* ------------------------------------------------------------------ text

Whitespace == {SP, NL}

RECURSIVE TrimStart(_)
TrimStart(s) ==
    IF s # <<>> /\ Head(s) \in Whitespace THEN TrimStart(Tail(s)) ELSE s

RECURSIVE TrimEnd(_)
TrimEnd(s) ==
    IF s # <<>> /\ s[Len(s)] \in Whitespace
    THEN TrimEnd(SubSeq(s, 1, Len(s) - 1)) ELSE s

\* the string as it is
Untrimmed(s) == s

\* String.prototype.trim
Trim(s) == TrimEnd(TrimStart(s))

\* String.prototype.split('\n'): always at least one (possibly empty) line
RECURSIVE SplitLines(_, _)
SplitLines(s, cur) ==
    IF s = <<>> THEN <<cur>>
    ELSE IF Head(s) = NL THEN <<cur>> \o SplitLines(Tail(s), <<>>)
    ELSE SplitLines(Tail(s), Append(cur, Head(s)))

\* Array.prototype.join('\n')
RECURSIVE JoinLines(_)
JoinLines(ls) ==
    IF ls = <<>> THEN <<>>
    ELSE IF Len(ls) = 1 THEN ls[1]
    ELSE ls[1] \o <<NL>> \o JoinLines(Tail(ls))

\* line.startsWith(marker)
StartsWith(line, marker) == line # <<>> /\ Head(line) = marker

\* line.replace(marker, ''): the first occurrence is removed
RECURSIVE RemoveFirst(_, _)
RemoveFirst(line, marker) ==
    IF line = <<>> THEN <<>>
    ELSE IF Head(line) = marker THEN Tail(line)
    ELSE <<Head(line)>> \o RemoveFirst(Tail(line), marker)

RECURSIVE ParseLines(_, _, _)
ParseLines(lines, acc, inInstructions) ==
    IF lines = <<>> THEN acc
    ELSE LET line == Head(lines)
             rest == Tail(lines)
         IN  IF StartsWith(line, "NAME:")
             THEN ParseLines(rest,
                    [acc EXCEPT !.name = Trim(RemoveFirst(line, "NAME:"))],
                    inInstructions)
             ELSE IF StartsWith(line, "CATEGORY:")
             THEN ParseLines(rest,
                    [acc EXCEPT !.category = Trim(RemoveFirst(line, "CATEGORY:"))],
                    inInstructions)
             ELSE IF StartsWith(line, "DESCRIPTION:")
             THEN ParseLines(rest,
                    [acc EXCEPT !.description = Trim(RemoveFirst(line, "DESCRIPTION:"))],
                    inInstructions)
             ELSE IF Trim(line) = <<"---">>
             THEN ParseLines(rest, acc, TRUE)
             ELSE IF inInstructions
             THEN ParseLines(rest,
                    [acc EXCEPT !.instructionLines = Append(@, line)],
                    inInstructions)
             ELSE ParseLines(rest, acc, inInstructions)

parseSpec(spec) ==
    LET acc == ParseLines(SplitLines(Trim(spec), <<>>),
                          [name |-> <<>>, category |-> <<"crm">>,
                           description |-> <<>>, instructionLines |-> <<>>],
                          FALSE)
    IN  [name |-> acc.name, category |-> acc.category,
         description |-> acc.description,
         instructions |-> Trim(JoinLines(acc.instructionLines))]

\* ------------------------------------------------------------- the store

Statuses == {"pending", "in_progress", "completed", "failed", "skipped"}

\* A row of forge_features.  The columns an insert does not name take the
\* table's defaults (no timestamps, no error, retry_count 0).
Row(id, name, description, category, priority, instructions) ==
    [id |-> id, name |-> name, description |-> description,
     category |-> category, priority |-> priority, status |-> "pending",
     instructions |-> instructions, started_at |-> None,
     completed_at |-> None, error_message |-> Null, retry_count |-> 0]

\* supabase .update(patch): the named columns are overwritten
Patched(row, patch) ==
    [f \in DOMAIN row |-> IF f \in DOMAIN patch THEN patch[f] ELSE row[f]]

\* an update without its .eq('id', id): every row is patched
UpdateEvery(table, id, patch, ok) ==
    IF ok THEN [i \in DOMAIN table |-> Patched(table[i], patch)] ELSE table

\* supabase.from('forge_features').update(patch).eq('id', id): the rows that
\* match are patched (none, when the row is gone); ok = FALSE is a failed call
UpdateById(table, id, patch, ok) ==
    IF ok /\ id \in DOMAIN table
    THEN [table EXCEPT ![id] = Patched(table[id], patch)]
    ELSE table

\* supabase.from('forge_features').delete().eq('id', id)
DeleteById(table, id, ok) ==
    IF ok THEN [i \in DOMAIN table \ {id} |-> table[i]] ELSE table

\* supabase.from('forge_features').insert(row)
Inserted(table, row, ok) ==
    IF ok THEN [i \in DOMAIN table \cup {row.id} |->
                  IF i = row.id THEN row ELSE table[i]]
    ELSE table

\* an upsert that leaves the table with the one row it wrote
UpsertedAlone(table, key, value, ok) ==
    IF ok THEN [k \in {key} |-> value] ELSE table

\* supabase.from('forge_config').upsert({key, value})
Upserted(table, key, value, ok) ==
    IF ok THEN [k \in DOMAIN table \cup {key} |->
                  IF k = key THEN value ELSE table[k]]
    ELSE table

\* String(value) of a boolean
String(b) == IF b THEN "true" ELSE "false"

\* .select('*').order('priority') over the rows ids of table: the rows
\* ascending by priority; which of several rows of equal priority comes first
\* is the store's choice
RECURSIVE Ordered(_, _)
Ordered(table, ids) ==
    IF ids = {} THEN {<<>>}
    ELSE LET lowest == Min({table[i].priority : i \in ids})
             firsts == {i \in ids : table[i].priority = lowest}
         IN  UNION {{<<table[i]>> \o rest : rest \in Ordered(table, ids \ {i})} :
                       i \in firsts}

SelectOrdered(table) == Ordered(table, DOMAIN table)

\* ------------------------------------------------- the client's derived view

\* features.filter(f => f.status === st)
Filter(fs, st) == SelectSeq(fs, LAMBDA f : f.status = st)

\* Array.prototype.find: the first element whose index is in I, None for
\* undefined
FirstAt(fs, I) == IF I = {} THEN None ELSE Some(fs[Min(I)])

\* features.find(f => f.id === id)
FindById(fs, id) == FirstAt(fs, {i \in DOMAIN fs : fs[i].id = id})

\* features.find(f => f.id === selectedFeature)?.status
SelectedStatus ==
    LET f == FindById(features, selectedFeature)
    IN  IF f = None THEN Null ELSE f[1].status

Priorities(fs) == {fs[i].priority : i \in DOMAIN fs}

completed == Len(Filter(features, "completed"))
pending == Len(Filter(features, "pending"))
failed == Len(Filter(features, "failed"))
inProgress == Len(Filter(features, "in_progress"))
total == Len(features)

currentFeature ==
    FirstAt(features, {i \in DOMAIN features : features[i].status = "in_progress"})
isBuilding == inProgress > 0
isRunning == isBuilding \/ ~enginePaused
isPausing == enginePaused /\ isBuilding

\* the status pill of the app and queue dashboards
StatusLabel ==
    IF isPausing THEN "Pausing" ELSE IF isRunning THEN "Running" ELSE "Paused"

\* the sessions dashboard: sessions[0], None for undefined
currentSession == IF sessions = <<>> THEN None ELSE Some(sessions[1])

\* currentSession?.status === 'running' && !config.engine_paused
isRunningSessions ==
    /\ currentSession # None
    /\ currentSession[1] = "running"
    /\ ~enginePaused

\* the status pill of the sessions dashboard
StatusLabelSessions == IF isRunningSessions THEN "Running" ELSE "Paused"

\* the status pill the dashboard in use renders; nothing but the spinner is
\* rendered while loading
DisplayedStatus ==
    IF dashboard = "sessions" THEN StatusLabelSessions ELSE StatusLabel

\* A JavaScript number as far as the progress display needs it: NaN, or the
\* non-negative rational n / d.
NaN == [kind |-> "NaN", n |-> 0, d |-> 1]
Number(n, d) == [kind |-> "number", n |-> n, d |-> d]

\* a / b for integers 0 <= a <= b: 0 / 0 is NaN
Divide(a, b) == IF b = 0 THEN NaN ELSE Number(a, b)

\* x * 100
TimesHundred(x) == IF x = NaN THEN NaN ELSE Number(x.n * 100, x.d)

\* Math.round(x): the integer nearest to x, halves upwards
Round(x) == IF x = NaN THEN NaN ELSE Number((2 * x.n + x.d) \div (2 * x.d), 1)

\* x || 0
OrZero(x) == IF x = NaN \/ x.n = 0 THEN Number(0, 1) ELSE x

\* the number in the label: Math.round((completed/total)*100) || 0
progressLabel == OrZero(Round(TimesHundred(Divide(completed, total))))

\* the number in the width of the bar: (completed/total)*100
progressWidth == TimesHundred(Divide(completed, total))

\* ------------------------------------------------------ polls (loadData)

EmptyConfig == [k \in {} |-> "true"]

\* A loadData call in flight.  phase names the query awaited; rows and config
\* hold what that query read from the store when it was served.
FeaturesQuery(table) ==
    {[phase |-> "features", rows |-> r, sessions |-> <<>>, config |-> EmptyConfig] :
        r \in SelectOrdered(table)}

\* .order('started_at', { ascending: false }).limit(5)
SessionsQuery(table) ==
    [phase |-> "sessions", rows |-> <<>>,
     sessions |-> SubSeq(table, 1, Min({Len(table), SessionLimit})),
     config |-> EmptyConfig]

LogsQuery ==
    [phase |-> "logs", rows |-> <<>>, sessions |-> <<>>, config |-> EmptyConfig]

ConfigQuery(table) ==
    [phase |-> "config", rows |-> <<>>, sessions |-> <<>>, config |-> table]

\* a loadData whose features query is answered from the client's own
\* snapshot instead of the table
IssuePollFromCache(ps, table) ==
    {ps \cup {[phase |-> "features", rows |-> features, sessions |-> <<>>,
               config |-> EmptyConfig]}}

\* loadData(), up to its first await: the features query goes out and reads
\* table; the call joins the calls in flight
IssuePoll(ps, table) == {ps \cup {q} : q \in FeaturesQuery(table)}

\* row.value === 'true' || row.value === true
Truthy(value) == value = "true"

\* the sessions dashboard: JSON.parse(row.value), the raw string when that
\* throws; the flag is read for its truthiness
FalsyJson == {"false", "null", "0"}
JsonTruthy(value) == value \notin FalsyJson

\* the flag after configData.forEach: the stored value when the key has a
\* row, the current value otherwise
Loaded(config, key, current) ==
    IF key \notin DOMAIN config THEN current
    ELSE IF dashboard = "sessions" THEN JsonTruthy(config[key])
    ELSE Truthy(config[key])

\* a step that runs no handler
NoRun ==
    [op |-> "none", id |-> NoId, startNow |-> FALSE, result |-> "none",
     toast |-> "none"]

\* the timer of the polling effect, or the refresh button
LoadData ==
    /\ Cardinality(polls) < MaxPolls
    /\ polls' \in IssuePoll(polls, forge_features)
    /\ last' = NoRun
    /\ UNCHANGED <<storeVars, features, sessions, enginePaused, autoApprove,
                   skipOnError, loading, selectedFeature, showAddForm,
                   specInput, otherVars>>

\* a features query that came back without data, as the run notes it
QueryFailed == [NoRun EXCEPT !.op = "featuresQuery", !.result = "error"]

\* a features query whose failure empties the view
FeaturesResolveClearing(p, ok) ==
    /\ p \in polls /\ p.phase = "features"
    /\ features' = IF ok THEN p.rows ELSE <<>>
    /\ polls' = (polls \ {p}) \cup
                 {IF dashboard = "sessions" THEN SessionsQuery(forge_sessions)
                  ELSE LogsQuery}
    /\ last' = IF ok THEN NoRun ELSE QueryFailed
    /\ UNCHANGED <<storeVars, sessions, enginePaused, autoApprove, skipOnError,
                   loading, selectedFeature, showAddForm, specInput, otherVars>>

\* the features query resolves: setFeatures when it brought data (ok), then
\* the next query goes out: sessions on the sessions dashboard, logs on the
\* other two
FeaturesResolve(p, ok) ==
    /\ p \in polls /\ p.phase = "features"
    /\ features' = IF ok THEN p.rows ELSE features
    /\ polls' = (polls \ {p}) \cup
                 {IF dashboard = "sessions" THEN SessionsQuery(forge_sessions)
                  ELSE LogsQuery}
    /\ last' = IF ok THEN NoRun ELSE QueryFailed
    /\ UNCHANGED <<storeVars, sessions, enginePaused, autoApprove, skipOnError,
                   loading, selectedFeature, showAddForm, specInput, otherVars>>

\* the sessions query resolves: setSessions when it brought data (ok), then
\* the logs query goes out
SessionsResolve(p, ok) ==
    /\ p \in polls /\ p.phase = "sessions"
    /\ sessions' = IF ok THEN p.sessions ELSE sessions
    /\ polls' = (polls \ {p}) \cup {LogsQuery}
    /\ last' = NoRun
    /\ UNCHANGED <<storeVars, features, enginePaused, autoApprove, skipOnError,
                   loading, selectedFeature, showAddForm, specInput, otherVars>>

\* the logs query resolves; the config query goes out and reads the table
LogsResolve(p) ==
    /\ p \in polls /\ p.phase = "logs"
    /\ polls' = (polls \ {p}) \cup {ConfigQuery(forge_config)}
    /\ last' = NoRun
    /\ UNCHANGED <<storeVars, features, sessions, enginePaused, autoApprove,
                   skipOnError, loading, selectedFeature, showAddForm,
                   specInput, otherVars>>

\* the config query resolves: when it brought data (ok) the three flags are
\* set from the rows that exist; then setLoading(false)
ConfigResolve(p, ok) ==
    LET config == IF ok THEN p.config ELSE EmptyConfig
    IN  /\ p \in polls /\ p.phase = "config"
        /\ enginePaused' = Loaded(config, "engine_paused", enginePaused)
        /\ autoApprove' = Loaded(config, "auto_approve", autoApprove)
        /\ skipOnError' = Loaded(config, "skip_on_error", skipOnError)
        /\ loading' = FALSE
        /\ polls' = polls \ {p}
        /\ last' = NoRun
        /\ UNCHANGED <<storeVars, features, sessions, selectedFeature,
                       showAddForm, specInput, otherVars>>

\* ---------------------------------------------------------------- handlers

\* one handler run: the clock advances and the run is noted, with the
\* message it passed to showToast ("none": no toast)
RanWith(op, id, startNow, result, toast) ==
    /\ clock < MaxClock
    /\ clock' = clock + 1
    /\ last' = [op |-> op, id |-> id, startNow |-> startNow,
                result |-> result, toast |-> toast]

Ran(op, id, result, toast) == RanWith(op, id, FALSE, result, toast)

Result(ok) == IF ok THEN "ok" ELSE "error"

toggleEngine(ok) ==
    LET newValue == ~enginePaused
    IN  /\ ~loading
        /\ forge_config' = Upserted(forge_config, "engine_paused", String(newValue), ok)
        /\ enginePaused' = newValue
        /\ Ran("toggleEngine", NoId, Result(ok), "none")
        /\ UNCHANGED <<forge_features, forge_sessions, nextId, features,
                       sessions, autoApprove, skipOnError, loading,
                       selectedFeature, showAddForm, specInput, polls,
                       otherVars>>

updateConfig(key, ok) ==
    LET value == IF key = "auto_approve" THEN ~autoApprove ELSE ~skipOnError
    IN  /\ ~loading
        /\ forge_config' = Upserted(forge_config, key, String(value), ok)
        /\ autoApprove' = IF key = "auto_approve" THEN value ELSE autoApprove
        /\ skipOnError' = IF key = "skip_on_error" THEN value ELSE skipOnError
        /\ Ran("updateConfig", NoId, Result(ok), "none")
        /\ UNCHANGED <<forge_features, forge_sessions, nextId, features,
                       sessions, enginePaused, loading, selectedFeature,
                       showAddForm, specInput, polls, otherVars>>

\* the priority addFeature computes from the snapshot
NewPriority(fs, startNow) ==
    LET pendingFeatures == Filter(fs, "pending")
        lowestPriority == IF Len(pendingFeatures) > 0
                          THEN Max(Priorities(pendingFeatures)) + Num(1)
                          ELSE BaselinePriority
    IN  IF startNow THEN Num(0) ELSE lowestPriority

\* a row inserted with the description as it was parsed
NewRowAsParsed(id, prs, priority) ==
    Row(id, prs.name, prs.description, prs.category, priority, prs.instructions)

\* the row addFeature inserts
NewRow(id, prs, priority) ==
    Row(id, prs.name,
        IF prs.description # <<>> THEN prs.description ELSE prs.name,
        prs.category, priority, prs.instructions)

\* an addFeature that starts the engine before it looks at the outcome of
\* the insert
addFeatureStartingFirst(startNow, ok, okPaused) ==
    LET prs == parseSpec(specInput)
        row == NewRow(nextId, prs, NewPriority(features, startNow))
        starts == startNow /\ enginePaused
    IN  /\ ~loading /\ showAddForm
        /\ IF prs.name = <<>>
           THEN /\ ok /\ okPaused
                /\ RanWith("addFeature", NoId, startNow, "invalid", "Missing NAME: in spec")
                /\ UNCHANGED <<forge_features, forge_config, nextId,
                               enginePaused, showAddForm, specInput, polls>>
           ELSE /\ IF starts
                   THEN /\ forge_config' =
                             Upserted(forge_config, "engine_paused", "false", okPaused)
                        /\ enginePaused' = FALSE
                   ELSE /\ okPaused
                        /\ UNCHANGED <<forge_config, enginePaused>>
                /\ IF ~ok
                   THEN /\ RanWith("addFeature", NoId, startNow, "error", "Failed to add")
                        /\ UNCHANGED <<forge_features, nextId, showAddForm,
                                       specInput, polls>>
                   ELSE /\ nextId <= MaxFeatures
                        /\ Cardinality(polls) < MaxPolls
                        /\ forge_features' = Inserted(forge_features, row, TRUE)
                        /\ nextId' = nextId + 1
                        /\ specInput' = <<>>
                        /\ showAddForm' = FALSE
                        /\ polls' \in IssuePoll(polls, forge_features')
                        /\ RanWith("addFeature", row.id, startNow, "ok", "added to queue")
        /\ UNCHANGED <<forge_sessions, features, sessions, autoApprove,
                       skipOnError, loading, selectedFeature, otherVars>>

\* addFeature(startNow).  ok is the outcome of the insert, okPaused that of
\* the engine_paused upsert a start-now insert makes while paused.
addFeature(startNow, ok, okPaused) ==
    LET prs == parseSpec(specInput)
        row == NewRow(nextId, prs, NewPriority(features, startNow))
    IN  /\ ~loading /\ showAddForm
        /\ IF prs.name = <<>>
           THEN \* if (!parsed.name) { showToast(...); return; }
                /\ ok /\ okPaused
                /\ RanWith("addFeature", NoId, startNow, "invalid", "Missing NAME: in spec")
                /\ UNCHANGED <<forge_features, forge_config, nextId,
                               enginePaused, showAddForm, specInput, polls>>
           ELSE IF ~ok
           THEN \* if (error) { showToast(...); return; }
                /\ okPaused
                /\ RanWith("addFeature", NoId, startNow, "error", "Failed to add")
                /\ UNCHANGED <<forge_features, forge_config, nextId,
                               enginePaused, showAddForm, specInput, polls>>
           ELSE /\ nextId <= MaxFeatures
                /\ Cardinality(polls) < MaxPolls
                /\ forge_features' = Inserted(forge_features, row, TRUE)
                /\ nextId' = nextId + 1
                /\ specInput' = <<>>
                /\ showAddForm' = FALSE
                /\ polls' \in IssuePoll(polls, forge_features')
                /\ IF startNow /\ enginePaused
                   THEN /\ forge_config' =
                             Upserted(forge_config, "engine_paused", "false", okPaused)
                        /\ enginePaused' = FALSE
                   ELSE /\ okPaused
                        /\ UNCHANGED <<forge_config, enginePaused>>
                /\ RanWith("addFeature", row.id, startNow, "ok", "added to queue")
        /\ UNCHANGED <<forge_sessions, features, sessions, autoApprove,
                       skipOnError, loading, selectedFeature, otherVars>>

\* what every action of the sheet does after its store call: the sheet
\* closes, loadData() is called, and some show a toast
SheetDone(op, ok, toast) ==
    /\ selectedFeature' = NoId
    /\ polls' \in IssuePoll(polls, forge_features')
    /\ Ran(op, selectedFeature, Result(ok), toast)
    /\ UNCHANGED <<forge_config, forge_sessions, nextId, features, sessions,
                   enginePaused, autoApprove, skipOnError, loading,
                   showAddForm, specInput, otherVars>>

\* the sheet is open on a row the snapshot shows with one of these statuses
\* (Null: the snapshot no longer holds the row)
SheetShows(statuses) ==
    /\ ~loading
    /\ selectedFeature # NoId
    /\ SelectedStatus \in statuses
    /\ Cardinality(polls) < MaxPolls

\* Math.min(...pending priorities) - 1
moveToTopPatch(fs) ==
    [priority |-> Min(Priorities(Filter(fs, "pending"))) - Num(1)]

moveToTop(ok) ==
    /\ SheetShows({"pending"})
    /\ forge_features' =
         UpdateById(forge_features, selectedFeature, moveToTopPatch(features), ok)
    /\ SheetDone("moveToTop", ok, "Moved to top")

\* a moveUp that writes the whole row of the snapshot back
moveUpPatchWholeRow(feature) ==
    [feature EXCEPT !.priority = feature.priority - OneAndAHalf]

moveUpPatch(feature) == [priority |-> feature.priority - OneAndAHalf]

moveUp(ok) ==
    /\ SheetShows({"pending"})
    /\ forge_features' =
         UpdateById(forge_features, selectedFeature,
                    moveUpPatch(FindById(features, selectedFeature)[1]), ok)
    /\ SheetDone("moveUp", ok, "none")

\* a skip that clears the error as well
skipPatchClearing == [status |-> "skipped", error_message |-> Null]

skipPatch == [status |-> "skipped"]

skipFeature(ok) ==
    /\ SheetShows({"pending", "failed"})
    /\ forge_features' = UpdateById(forge_features, selectedFeature, skipPatch, ok)
    /\ SheetDone("skipFeature", ok, "none")

\* a retry that hands the feature to the worker itself
retryPatchBuilding ==
    [status |-> "in_progress", retry_count |-> 0, error_message |-> Null]

retryPatch == [status |-> "pending", retry_count |-> 0, error_message |-> Null]

retryFeature(ok) ==
    /\ SheetShows({"failed", "skipped"})
    /\ forge_features' = UpdateById(forge_features, selectedFeature, retryPatch, ok)
    /\ SheetDone("retryFeature", ok, "none")

\* now: new Date().toISOString() at the call
completedPatch(now) == [status |-> "completed", completed_at |-> Some(now)]

markCompleted(ok) ==
    /\ SheetShows({"pending"})
    /\ forge_features' =
         UpdateById(forge_features, selectedFeature, completedPatch(clock + 1), ok)
    /\ SheetDone("markCompleted", ok, "none")

\* the Delete button is on the sheet whatever the row's status is
deleteFeature(ok) ==
    /\ SheetShows(Statuses \cup {Null})
    /\ forge_features' = DeleteById(forge_features, selectedFeature, ok)
    /\ SheetDone("deleteFeature", ok, "Feature deleted")

\* ------------------------------------ the app and the sessions dashboards

\* the Start button of the sessions dashboard, shown while engine_paused
startEngine(ok) ==
    /\ dashboard = "sessions"
    /\ ~loading
    /\ enginePaused
    /\ forge_config' = Upserted(forge_config, "engine_paused", "false", ok)
    /\ enginePaused' = FALSE
    /\ Ran("startEngine", NoId, Result(ok), "none")
    /\ UNCHANGED <<forge_features, forge_sessions, nextId, features,
                   sessions, autoApprove, skipOnError, loading,
                   selectedFeature, showAddForm, specInput, polls, otherVars>>

\* the Pause button of the sessions dashboard, shown otherwise
pauseEngine(ok) ==
    /\ dashboard = "sessions"
    /\ ~loading
    /\ ~enginePaused
    /\ forge_config' = Upserted(forge_config, "engine_paused", "true", ok)
    /\ enginePaused' = TRUE
    /\ Ran("pauseEngine", NoId, Result(ok), "none")
    /\ UNCHANGED <<forge_features, forge_sessions, nextId, features,
                   sessions, autoApprove, skipOnError, loading,
                   selectedFeature, showAddForm, specInput, polls, otherVars>>

\* A button on row i of the feature list, which these two dashboards show
\* on rows with one of these statuses: the update goes out, then loadData().
RowButton(op, i, statuses, patch, ok) ==
    /\ dashboard \in {"app", "sessions"}
    /\ ~loading
    /\ i \in DOMAIN features
    /\ features[i].status \in statuses
    /\ Cardinality(polls) < MaxPolls
    /\ forge_features' = UpdateById(forge_features, features[i].id, patch, ok)
    /\ polls' \in IssuePoll(polls, forge_features')
    /\ Ran(op, features[i].id, Result(ok), "none")
    /\ UNCHANGED <<forge_config, forge_sessions, nextId, features, sessions,
                   enginePaused, autoApprove, skipOnError, loading,
                   selectedFeature, showAddForm, specInput, otherVars>>

\* Skip, on failed and pending rows
skipFeatureRow(i, ok) ==
    RowButton("skipFeature", i, {"failed", "pending"}, skipPatch, ok)

\* the update retryFeature of the sessions dashboard sends
retryPatchSessions == [status |-> "pending", retry_count |-> 0]

\* Retry on failed rows, Re-queue on skipped rows
retryFeatureRow(i, ok) ==
    RowButton("retryFeature", i, {"failed", "skipped"},
              IF dashboard = "sessions" THEN retryPatchSessions ELSE retryPatch,
              ok)

\* Done, on pending rows
markCompletedRow(i, ok) ==
    RowButton("markCompleted", i, {"pending"}, completedPatch(clock + 1), ok)

\* --------------------------------------------- the operator's other actions

\* a row of the queue is clicked: the sheet opens unless the row is being
\* built or is done
SelectFeature(i) ==
    /\ ~loading
    /\ i \in DOMAIN features
    /\ features[i].status \notin {"in_progress", "completed"}
    /\ selectedFeature # features[i].id
    /\ selectedFeature' = features[i].id
    /\ last' = NoRun
    /\ UNCHANGED <<storeVars, features, sessions, enginePaused, autoApprove,
                   skipOnError, loading, showAddForm, specInput, polls,
                   otherVars>>

\* the texts the operator pastes into the add form
NameOnlyText == <<"NAME:", SP, "Bar">>
NoNameText == <<"CATEGORY:", SP, "ui", NL, "---", NL, "step">>
EmptyNameText == <<"NAME:", SP, NL, "---", NL, "step">>
MidNameText == <<"the", SP, "NAME:", SP, "Bar">>
FullText ==
    <<"NAME:", SP, "Bar", NL, "CATEGORY:", SP, "ui", NL,
      "DESCRIPTION:", SP, "does", NL, "---", NL, "step">>
SpecTexts == {NameOnlyText, NoNameText, EmptyNameText, MidNameText}

\* Add Feature is clicked and a text is pasted into the form
OpenAddForm(text) ==
    /\ ~loading
    /\ ~showAddForm
    /\ showAddForm' = TRUE
    /\ specInput' = text
    /\ last' = NoRun
    /\ UNCHANGED <<storeVars, features, sessions, enginePaused, autoApprove,
                   skipOnError, loading, selectedFeature, polls, otherVars>>

\* -------------------------------------------------------- the other actors

clientVars == <<features, sessions, enginePaused, autoApprove, skipOnError,
                loading, selectedFeature, showAddForm, specInput, polls>>

\* the worker claims a pending feature
WorkerClaims(id) ==
    /\ id \in DOMAIN forge_features
    /\ forge_features[id].status = "pending"
    /\ forge_features' =
         UpdateById(forge_features, id,
                    [status |-> "in_progress", started_at |-> Some(clock + 1)], TRUE)
    /\ Ran("workerClaims", id, "ok", "none")
    /\ UNCHANGED <<forge_config, forge_sessions, nextId, clientVars, otherVars>>

\* the worker finishes the feature it builds
WorkerCompletes(id) ==
    /\ id \in DOMAIN forge_features
    /\ forge_features[id].status = "in_progress"
    /\ forge_features' =
         UpdateById(forge_features, id,
                    [status |-> "completed", completed_at |-> Some(clock + 1)], TRUE)
    /\ Ran("workerCompletes", id, "ok", "none")
    /\ UNCHANGED <<forge_config, forge_sessions, nextId, clientVars, otherVars>>

\* the worker gives up on the feature it builds
WorkerFails(id) ==
    /\ id \in DOMAIN forge_features
    /\ forge_features[id].status = "in_progress"
    /\ forge_features[id].retry_count < MaxRetry
    /\ forge_features' =
         UpdateById(forge_features, id,
                    [status |-> "failed", error_message |-> "build failed",
                     retry_count |-> forge_features[id].retry_count + 1], TRUE)
    /\ Ran("workerFails", id, "ok", "none")
    /\ UNCHANGED <<forge_config, forge_sessions, nextId, clientVars, otherVars>>

\* a second operator, whose snapshot is up to date, adds a feature
OtherAddFeature(startNow) ==
    LET fresh == CHOOSE r \in SelectOrdered(forge_features) : TRUE
        row == NewRow(nextId, parseSpec(NameOnlyText), NewPriority(fresh, startNow))
    IN  /\ nextId <= MaxFeatures
        /\ forge_features' = Inserted(forge_features, row, TRUE)
        /\ nextId' = nextId + 1
        /\ RanWith("otherAddFeature", row.id, startNow, "ok", "none")
        /\ UNCHANGED <<forge_config, forge_sessions, clientVars, otherVars>>

\* The second operator's client loads its snapshot (its loadData, from the
\* features query to setFeatures, in one step).
OtherLoads ==
    /\ otherFeatures' \in SelectOrdered(forge_features)
    /\ otherFeatures' # otherFeatures
    /\ last' = NoRun
    /\ UNCHANGED <<storeVars, clientVars, dashboard, blockParts, parsed>>

\* a reordering the second operator makes on row i of its snapshot, which
\* its sheet shows as pending
OtherReorder(op, i, patch) ==
    /\ i \in DOMAIN otherFeatures
    /\ otherFeatures[i].status = "pending"
    /\ forge_features' =
         UpdateById(forge_features, otherFeatures[i].id, patch, TRUE)
    /\ Ran(op, otherFeatures[i].id, "ok", "none")
    /\ UNCHANGED <<forge_config, forge_sessions, nextId, clientVars, otherVars>>

OtherMoveToTop(i) ==
    OtherReorder("otherMoveToTop", i, moveToTopPatch(otherFeatures))

OtherMoveUp(i) ==
    /\ i \in DOMAIN otherFeatures
    /\ OtherReorder("otherMoveUp", i, moveUpPatch(otherFeatures[i]))

\* --------------------------------------------------------- specifications

\* the rows the store holds when the dashboard is opened: none; two pending
\* features; or a feature the worker failed on and a feature skipped earlier
SeedRow(id, status) ==
    [Row(id, <<"seed">>, <<"seed">>, <<"crm">>, Num(id), <<>>)
        EXCEPT !.status = status,
               !.error_message = IF status = "failed" THEN "build failed" ELSE Null,
               !.retry_count = IF status = "failed" THEN 1 ELSE 0]

InitialFeatures ==
    { [i \in {} |-> SeedRow(i, "pending")],
      [i \in {1, 2} |-> SeedRow(i, "pending")],
      [i \in {1, 2} |-> SeedRow(i, IF i = 1 THEN "failed" ELSE "skipped")] }

ClientInit ==
    /\ features = <<>>
    /\ sessions = <<>>
    /\ enginePaused = TRUE
    /\ autoApprove = TRUE
    /\ skipOnError = FALSE
    /\ loading = TRUE
    /\ selectedFeature = NoId
    /\ showAddForm = FALSE
    /\ specInput = <<>>
    /\ polls = {}
    /\ last = NoRun

\* no block is being parsed
NoBlock == [name |-> <<>>, category |-> <<>>, description |-> <<>>, lines |-> <<>>]

ParseIdle ==
    /\ blockParts = NoBlock
    /\ parsed = None

\* forge_sessions as the worker left it: no session yet, a session that
\* runs, a session that ended
InitialSessions == {<<>>, <<"running">>, <<"completed">>}

\* dashboard d is opened on a store whose config keys were never written
InitOn(d) ==
    /\ dashboard = d
    /\ forge_features \in InitialFeatures
    /\ forge_config = EmptyConfig
    /\ forge_sessions \in
         IF d = "sessions" THEN InitialSessions ELSE {<<>>}
    /\ nextId = Cardinality(DOMAIN forge_features) + 1
    /\ clock = 0
    /\ ClientInit
    /\ otherFeatures = <<>>
    /\ ParseIdle

Init == InitOn("queue")

\* loadData, every query of which succeeds
Polling ==
    \/ LoadData
    \/ \E p \in polls : FeaturesResolve(p, TRUE)
    \/ \E p \in polls : LogsResolve(p)
    \/ \E p \in polls : ConfigResolve(p, TRUE)

\* The operator reorders and adds while a second operator adds.
ReorderNext ==
    \/ Polling
    \/ \E i \in 1..MaxFeatures : SelectFeature(i)
    \/ moveToTop(TRUE)
    \/ moveUp(TRUE)
    \/ OpenAddForm(NameOnlyText)
    \/ \E startNow \in BOOLEAN : addFeature(startNow, TRUE, TRUE)
    \/ \E startNow \in BOOLEAN : OtherAddFeature(startNow)

SpecReorder == Init /\ [][ReorderNext]_vars

\* The operator skips, retries, completes and deletes while the worker builds.
LifecycleNext ==
    \/ Polling
    \/ \E i \in 1..MaxFeatures : SelectFeature(i)
    \/ skipFeature(TRUE)
    \/ retryFeature(TRUE)
    \/ markCompleted(TRUE)
    \/ deleteFeature(TRUE)
    \/ \E id \in 1..MaxFeatures : WorkerClaims(id)
    \/ \E id \in 1..MaxFeatures : WorkerCompletes(id)
    \/ \E id \in 1..MaxFeatures : WorkerFails(id)

SpecLifecycle == Init /\ [][LifecycleNext]_vars

\* The operator adds features, the inserts may fail, a second operator adds.
AddNext ==
    \/ Polling
    \/ \E text \in SpecTexts : OpenAddForm(text)
    \/ \E startNow, ok, okPaused \in BOOLEAN : addFeature(startNow, ok, okPaused)
    \/ \E startNow \in BOOLEAN : OtherAddFeature(startNow)

SpecAdd == Init /\ [][AddNext]_vars

\* The three dashboards: the operator skips, retries and completes features
\* (on the sheet of the queue dashboard, with the row buttons of the other
\* two) while the worker builds.
TransitionsInit == \E d \in {"queue", "app", "sessions"} : InitOn(d)

TransitionsNext ==
    \/ Polling
    \/ \E p \in polls : SessionsResolve(p, TRUE)
    \/ dashboard = "queue" /\ \E i \in 1..MaxFeatures : SelectFeature(i)
    \/ dashboard = "queue" /\ skipFeature(TRUE)
    \/ dashboard = "queue" /\ retryFeature(TRUE)
    \/ dashboard = "queue" /\ markCompleted(TRUE)
    \/ \E i \in 1..MaxFeatures : skipFeatureRow(i, TRUE)
    \/ \E i \in 1..MaxFeatures : retryFeatureRow(i, TRUE)
    \/ \E i \in 1..MaxFeatures : markCompletedRow(i, TRUE)
    \/ \E id \in 1..MaxFeatures : WorkerClaims(id)
    \/ \E id \in 1..MaxFeatures : WorkerFails(id)

SpecTransitions == TransitionsInit /\ [][TransitionsNext]_vars

\* The features query of loadData may come back without data while the
\* worker builds and the operator switches the engine.
PollFailureInit == \E d \in {"queue", "app"} : InitOn(d)

PollFailureNext ==
    \/ LoadData
    \/ \E p \in polls, ok \in BOOLEAN : FeaturesResolve(p, ok)
    \/ \E p \in polls : LogsResolve(p)
    \/ \E p \in polls : ConfigResolve(p, TRUE)
    \/ toggleEngine(TRUE)
    \/ \E id \in 1..MaxFeatures : WorkerClaims(id)
    \/ \E id \in 1..MaxFeatures : WorkerFails(id)

SpecPollFailure == PollFailureInit /\ [][PollFailureNext]_vars

\* The operator's store calls may fail.
FailureNext ==
    \/ Polling
    \/ \E i \in 1..MaxFeatures : SelectFeature(i)
    \/ \E ok \in BOOLEAN : toggleEngine(ok)
    \/ \E key \in {"auto_approve", "skip_on_error"}, ok \in BOOLEAN :
          updateConfig(key, ok)
    \/ \E ok \in BOOLEAN : moveToTop(ok)
    \/ \E ok \in BOOLEAN : skipFeature(ok)
    \/ \E ok \in BOOLEAN : deleteFeature(ok)

SpecFailure == Init /\ [][FailureNext]_vars

\* forge_config with a row for every key the dashboards read
FullConfig ==
    [engine_paused |-> "true", auto_approve |-> "false", skip_on_error |-> "true"]

\* The store changes for a while (the operator, whose engine_paused upsert
\* may fail, and the worker), and the timer keeps calling loadData: every
\* call is made in the end and every query is answered in the end.
ConvergeInit ==
    /\ dashboard = "queue"
    /\ forge_features \in InitialFeatures
    /\ forge_config \in {EmptyConfig, FullConfig}
    /\ forge_sessions = <<>>
    /\ nextId = Cardinality(DOMAIN forge_features) + 1
    /\ clock = 0
    /\ ClientInit
    /\ otherFeatures = <<>>
    /\ ParseIdle

ConvergeNext ==
    \/ Polling
    \/ \E i \in 1..MaxFeatures : SelectFeature(i)
    \/ \E ok \in BOOLEAN : toggleEngine(ok)
    \/ skipFeature(TRUE)
    \/ \E id \in 1..MaxFeatures : WorkerClaims(id)

SpecConverge ==
    /\ ConvergeInit
    /\ [][ConvergeNext]_vars
    /\ WF_vars(LoadData)
    /\ WF_vars(\E p \in polls : FeaturesResolve(p, TRUE))
    /\ WF_vars(\E p \in polls : LogsResolve(p))
    /\ WF_vars(\E p \in polls : ConfigResolve(p, TRUE))

\* Two operators reorder the same queue while the worker claims features.
RaceInit ==
    /\ Init
    /\ forge_features # <<>>

RaceNext ==
    \/ Polling
    \/ \E i \in 1..MaxFeatures : SelectFeature(i)
    \/ moveToTop(TRUE)
    \/ moveUp(TRUE)
    \/ OtherLoads
    \/ \E i \in 1..MaxFeatures : OtherMoveToTop(i)
    \/ \E i \in 1..MaxFeatures : OtherMoveUp(i)
    \/ \E id \in 1..MaxFeatures : WorkerClaims(id)

SpecRace == RaceInit /\ [][RaceNext]_vars

\* The operator adds features from a name alone and from a full text; every
\* insert succeeds.
InsertNext ==
    \/ Polling
    \/ \E text \in {NameOnlyText, FullText} : OpenAddForm(text)
    \/ \E startNow \in BOOLEAN : addFeature(startNow, TRUE, TRUE)

SpecInsert == Init /\ [][InsertNext]_vars

\* Every operator action of the queue and the app dashboards, each store
\* call succeeding, while the worker claims features.  The operator adds
\* to the empty queue only.
OperatorsInit == \E d \in {"queue", "app"} : InitOn(d)

QueueOperator ==
    /\ dashboard = "queue"
    /\ \/ \E i \in 1..MaxFeatures : SelectFeature(i)
       \/ moveToTop(TRUE)
       \/ moveUp(TRUE)
       \/ skipFeature(TRUE)
       \/ retryFeature(TRUE)
       \/ markCompleted(TRUE)
       \/ deleteFeature(TRUE)
       \/ OpenAddForm(NameOnlyText)
       \/ \E startNow \in BOOLEAN :
             forge_features = <<>> /\ addFeature(startNow, TRUE, TRUE)

AppOperator ==
    \/ \E i \in 1..MaxFeatures : skipFeatureRow(i, TRUE)
    \/ \E i \in 1..MaxFeatures : retryFeatureRow(i, TRUE)
    \/ \E i \in 1..MaxFeatures : markCompletedRow(i, TRUE)

OperatorsNext ==
    \/ Polling
    \/ QueueOperator
    \/ AppOperator
    \/ toggleEngine(TRUE)
    \/ \E key \in {"auto_approve", "skip_on_error"} : updateConfig(key, TRUE)
    \/ \E id \in 1..MaxFeatures : WorkerClaims(id)

SpecOperators == OperatorsInit /\ [][OperatorsNext]_vars

\* Two operators move features up a queue of three pending features.
ThreePending == [i \in 1..3 |-> SeedRow(i, "pending")]

MoveUpInit ==
    /\ dashboard = "queue"
    /\ forge_features = ThreePending
    /\ forge_config = EmptyConfig
    /\ forge_sessions = <<>>
    /\ nextId = Cardinality(DOMAIN forge_features) + 1
    /\ clock = 0
    /\ ClientInit
    /\ otherFeatures = <<>>
    /\ ParseIdle

MoveUpNext ==
    \/ Polling
    \/ \E i \in 1..MaxFeatures : SelectFeature(i)
    \/ moveUp(TRUE)
    \/ OtherLoads
    \/ \E i \in 1..MaxFeatures : OtherMoveToTop(i)
    \/ \E i \in 1..MaxFeatures : OtherMoveUp(i)

SpecMoveUp == MoveUpInit /\ [][MoveUpNext]_vars

\* The worker builds while the dashboard polls; feature 2 of the store was
\* moved to the top before the dashboard was opened, so that the priority
\* order and the creation order of the records differ.
MovedToTop ==
    [i \in {1, 2} |->
        [SeedRow(i, "pending") EXCEPT !.priority = Num(2 - i)]]

CurrentInit ==
    /\ dashboard = "queue"
    /\ forge_features \in InitialFeatures \cup {MovedToTop}
    /\ forge_config = EmptyConfig
    /\ forge_sessions = <<>>
    /\ nextId = Cardinality(DOMAIN forge_features) + 1
    /\ clock = 0
    /\ ClientInit
    /\ otherFeatures = <<>>
    /\ ParseIdle

CurrentNext ==
    \/ Polling
    \/ toggleEngine(TRUE)
    \/ \E id \in 1..MaxFeatures : WorkerClaims(id)
    \/ \E id \in 1..MaxFeatures : WorkerCompletes(id)
    \/ \E id \in 1..MaxFeatures : WorkerFails(id)

SpecCurrent == CurrentInit /\ [][CurrentNext]_vars

\* The app and the sessions dashboards: the operator uses the row buttons
\* and the engine switch while the worker builds.
RowsInit == \E d \in {"app", "sessions"} : InitOn(d)

RowsNext ==
    \/ Polling
    \/ \E p \in polls : SessionsResolve(p, TRUE)
    \/ \E i \in 1..MaxFeatures : skipFeatureRow(i, TRUE)
    \/ \E i \in 1..MaxFeatures : retryFeatureRow(i, TRUE)
    \/ \E i \in 1..MaxFeatures : markCompletedRow(i, TRUE)
    \/ dashboard = "app" /\ toggleEngine(TRUE)
    \/ startEngine(TRUE)
    \/ pauseEngine(TRUE)
    \/ \E id \in 1..MaxFeatures : WorkerClaims(id)
    \/ \E id \in 1..MaxFeatures : WorkerFails(id)

SpecRows == RowsInit /\ [][RowsNext]_vars

\* parseSpec as a function of its input.  A block is given by its parts:
\* the text after each of the three markers and the lines after the
\* separator.
NameTexts == {<<SP, "Foo">>, <<"Foo", SP>>}
CategoryTexts == {<<SP, "crm">>, <<SP, "ui">>}
DescriptionTexts == {<<SP, "does", SP, "thing">>, <<>>}
LineTexts ==
    {<<"step", SP, "1">>, <<"step", SP, "2">>, <<SP, SP, "step">>, <<>>,
     <<"NAME:", SP, "x">>, <<"---">>}

RECURSIVE SeqsUpTo(_, _)
SeqsUpTo(S, n) ==
    IF n = 0 THEN {<<>>}
    ELSE LET shorter == SeqsUpTo(S, n - 1)
         IN  shorter \cup {Append(q, x) : q \in shorter, x \in S}

Blocks ==
    [name : NameTexts, category : CategoryTexts,
     description : DescriptionTexts,
     lines : SeqsUpTo(LineTexts, MaxLines) \ {<<>>}]

\* the text of a block: the marker lines, the separator line, the lines
BlockText(b) ==
    JoinLines(<<<<"NAME:">> \o b.name,
                <<"CATEGORY:">> \o b.category,
                <<"DESCRIPTION:">> \o b.description,
                <<"---">>>> \o b.lines)

ParseInit ==
    /\ dashboard = "queue"
    /\ forge_features = <<>>
    /\ forge_config = EmptyConfig
    /\ forge_sessions = <<>>
    /\ nextId = 1
    /\ clock = 0
    /\ ClientInit
    /\ otherFeatures = <<>>
    /\ blockParts \in Blocks
    /\ parsed = None

\* parseSpec is applied to the text of the block
ParseBlock ==
    /\ parsed = None
    /\ parsed' = Some(parseSpec(BlockText(blockParts)))
    /\ UNCHANGED <<storeVars, clientVars, last, dashboard, otherFeatures,
                   blockParts>>

SpecParse == ParseInit /\ [][ParseBlock]_vars

\* -------------------------------------------------------------- properties

\* the rows of the store other than id that are pending
OtherPending(id) ==
    {j \in DOMAIN forge_features \ {id} : forge_features[j].status = "pending"}

\* the ids of the rows of a snapshot
Ids(fs) == {fs[i].id : i \in DOMAIN fs}

\* the handler op has just written the row last.id, which exists
Wrote(op) ==
    /\ last.op = op
    /\ last.result = "ok"
    /\ last.id \in DOMAIN forge_features

\* C1: once the write of moveToTop(X) has been applied, the stored priority
\* of X is strictly less than the stored priority of every other feature that
\* is pending at that moment, features inserted after the client fetched its
\* snapshot included.
C1_MoveToTopBelowEveryPending ==
    Wrote("moveToTop") =>
        \A j \in OtherPending(last.id) :
            forge_features[last.id].priority < forge_features[j].priority

\* C2: an operator transition (skip, retry / re-queue, mark-complete) applied
\* to a feature that is in_progress or completed in the store leaves that
\* record unchanged, also when the client's snapshot shows an older status.
C2_TransitionRejectedOnWorkerStates ==
    [][ \A id \in DOMAIN forge_features :
          ( /\ last'.op \in {"skipFeature", "retryFeature", "markCompleted"}
            /\ last'.id = id
            /\ forge_features[id].status \in {"in_progress", "completed"} )
          => /\ id \in DOMAIN forge_features'
             /\ forge_features'[id] = forge_features[id] ]_vars

\* C4: addFeature(startNow = true) inserts a feature whose priority is less
\* than or equal to the priority of every feature that existed before the
\* insert, whatever moveToTop and moveUp did before.
C4_StartNowAtOrBelowMinimum ==
    (Wrote("addFeature") /\ last.startNow) =>
        \A j \in DOMAIN forge_features \ {last.id} :
            forge_features[last.id].priority <= forge_features[j].priority

\* C5: a feature that was deleted and has left the observer's view never
\* appears in the view again, whatever polls were in flight.
C5_DeletedNeverReappears ==
    [][ \A id \in 1..(nextId - 1) :
          (id \notin DOMAIN forge_features /\ id \notin Ids(features))
          => id \notin Ids(features') ]_vars

\* C10: addFeature(startNow = false) inserts the feature with priority
\* (maximum priority of the features pending in the store at the insert) + 1,
\* or 100 when none is pending.
C10_AppendAfterStoredMaximum ==
    (Wrote("addFeature") /\ ~last.startNow) =>
        forge_features[last.id].priority =
            IF OtherPending(last.id) = {} THEN BaselinePriority
            ELSE Max({forge_features[j].priority : j \in OtherPending(last.id)})
                 + Num(1)

\* C3: after retryFeature(id) has been applied the stored record has status
\* pending, error_message null and retry_count 0, on every dashboard.
C3_RetryResetsTheRecord ==
    Wrote("retryFeature") =>
        /\ forge_features[last.id].status = "pending"
        /\ forge_features[last.id].error_message = Null
        /\ forge_features[last.id].retry_count = 0

\* C6: the status shown is Pausing when the engine is paused and a feature
\* of the view is in progress, Paused when it is paused and none is, and
\* Running when it is not paused, on every dashboard.
C6_StatusFollowsPausedAndInProgress ==
    ~loading =>
        DisplayedStatus =
            IF enginePaused /\ inProgress >= 1 THEN "Pausing"
            ELSE IF enginePaused THEN "Paused"
            ELSE "Running"

\* the number x is the fraction a / b
IsFraction(x, a, b) == x.kind = "number" /\ x.n * b = a * x.d

\* the number x is the integer nearest to a / b
IsNearestInteger(x, a, b) ==
    /\ x.kind = "number" /\ x.d = 1
    /\ 2 * x.n * b <= 2 * a + b
    /\ 2 * a + b < 2 * (x.n + 1) * b

\* C7: the progress fraction behind the percentage label and behind the
\* width of the bar is 0 when total = 0 and completed / total otherwise,
\* and is never NaN.
C7_ProgressIsAFraction ==
    ~loading =>
        LET a == IF total = 0 THEN 0 ELSE completed
            b == IF total = 0 THEN 1 ELSE total
        IN  /\ IsNearestInteger(progressLabel, 100 * a, b)
            /\ IsFraction(progressWidth, 100 * a, b)

\* C8: parseSpec applied to a block of NAME:, CATEGORY: and DESCRIPTION:
\* lines, a --- line and instruction lines returns the trimmed text after
\* each marker as name, category and description, and the lines after the
\* separator joined by newline as instructions.
C8_ParseSpecReturnsTheParts ==
    parsed # None =>
        /\ parsed[1].name = Trim(blockParts.name)
        /\ parsed[1].category = Trim(blockParts.category)
        /\ parsed[1].description = Trim(blockParts.description)
        /\ parsed[1].instructions = JoinLines(blockParts.lines)

\* the text has a line that begins with NAME: and goes on with a name
HasName(text) ==
    \E i \in DOMAIN text :
        /\ text[i] = "NAME:"
        /\ i = 1 \/ text[i - 1] = NL
        /\ \E j \in (i + 1)..Len(text) :
              /\ text[j] \notin Whitespace
              /\ \A k \in (i + 1)..j : text[k] # NL

\* C9: addFeature on a text that has no NAME: line, or an empty name, is
\* rejected as a validation failure: no record is inserted, no record and no
\* config key is changed, no poll goes out, and the form, its input and
\* the engine-paused flag stay as they are.
C9_MissingNameChangesNothing ==
    [][ (last'.op = "addFeature" /\ ~HasName(specInput)) =>
          /\ last'.result = "invalid"
          /\ UNCHANGED <<forge_features, forge_config, forge_sessions, nextId,
                         features, polls, specInput, showAddForm,
                         enginePaused>> ]_vars

\* a start-now addFeature was rejected for its missing name while the engine
\* was paused and the store held features
C9_Witness ==
    /\ last.op = "addFeature" /\ last.result = "invalid" /\ last.startNow
    /\ ~HasName(specInput)
    /\ showAddForm
    /\ enginePaused
    /\ DOMAIN forge_features # {}

\* C11: moveToTop and moveUp change the priority only of a feature that is
\* pending in the store when the write is applied.
C11_ReorderOnlyPending ==
    [][ \A id \in DOMAIN forge_features :
          ( /\ last'.op \in {"moveToTop", "moveUp"}
            /\ forge_features[id].status # "pending" )
          => /\ id \in DOMAIN forge_features'
             /\ forge_features'[id].priority = forge_features[id].priority ]_vars

\* the toasts that report a success
SuccessToasts == {"Moved to top", "Feature deleted", "added to queue"}

\* C12: when a mutation call to the store fails, the client keeps its local
\* state (the enginePaused, autoApprove and skipOnError flags and the
\* features view) as it was before the call and reports no success.
C12_FailedCallChangesNothingLocal ==
    [][ last'.result = "error" =>
          /\ UNCHANGED <<enginePaused, autoApprove, skipOnError, features>>
          /\ last'.toast \notin SuccessToasts ]_vars

\* the store after the write of priority p to the record id, and of nothing
\* else
PriorityWritten(id, p) ==
    IF id \in DOMAIN forge_features
    THEN [forge_features EXCEPT ![id].priority = p]
    ELSE forge_features

\* the reordering of this step wrote the priority its client computed from
\* its own snapshot, to the one record it names, and nothing else
ReorderWrites ==
    /\ last'.op = "moveToTop" =>
         forge_features' =
           PriorityWritten(last'.id, moveToTopPatch(features).priority)
    /\ last'.op = "otherMoveToTop" =>
         forge_features' =
           PriorityWritten(last'.id, moveToTopPatch(otherFeatures).priority)
    /\ last'.op = "moveUp" =>
         forge_features' =
           PriorityWritten(last'.id,
                           FindById(features, last'.id)[1].priority - OneAndAHalf)
    /\ last'.op = "otherMoveUp" =>
         forge_features' =
           PriorityWritten(last'.id,
                           FindById(otherFeatures, last'.id)[1].priority - OneAndAHalf)

\* whatever the other client did, a reordering a client can issue is applied
ReorderNeverWaits ==
    /\ (SheetShows({"pending"}) /\ clock < MaxClock) =>
          (ENABLED moveToTop(TRUE)) /\ (ENABLED moveUp(TRUE))
    /\ \A i \in DOMAIN otherFeatures :
          (otherFeatures[i].status = "pending" /\ clock < MaxClock) =>
             (ENABLED OtherMoveToTop(i)) /\ (ENABLED OtherMoveUp(i))

\* C13: when two operator clients reorder the same store, in any order, the
\* store keeps its set of ids, each write changes the priority of its own
\* record only and leaves there the value it wrote (the last write to a
\* record wins), and no reordering waits on another.
C13_RacingReordersLastWriteWins ==
    [][ReorderWrites]_vars /\ []ReorderNeverWaits

\* both clients moved a feature to the top from the same snapshot: the
\* second write stands and two pending features share a priority
C13_Witness ==
    /\ last.op = "moveToTop" /\ last.result = "ok"
    /\ otherFeatures # <<>>
    /\ \E i, j \in DOMAIN forge_features :
          /\ i # j /\ j = last.id
          /\ forge_features[i].priority = forge_features[j].priority
          /\ forge_features[i].priority < Num(1)

\* the features view is the table as a features query returns it
ViewIsStore == features \in SelectOrdered(forge_features)

\* each of the three flags has the value of its row of forge_config
FlagsAreStore ==
    /\ "engine_paused" \in DOMAIN forge_config =>
          enginePaused = (forge_config["engine_paused"] = "true")
    /\ "auto_approve" \in DOMAIN forge_config =>
          autoApprove = (forge_config["auto_approve"] = "true")
    /\ "skip_on_error" \in DOMAIN forge_config =>
          skipOnError = (forge_config["skip_on_error"] = "true")

C15_SkipChangesStatusOnly ==
    [][ \A id \in DOMAIN forge_features :
          ( /\ last'.op = "skipFeature" /\ last'.id = id
            /\ forge_features[id].status \in {"pending", "failed"} )
          => forge_features' =
               [forge_features EXCEPT ![id].status = "skipped"] ]_vars

\* a failed feature was skipped and keeps its error and its retry count
C15_Witness ==
    /\ Wrote("skipFeature")
    /\ forge_features[last.id].status = "skipped"
    /\ forge_features[last.id].error_message = "build failed"
    /\ forge_features[last.id].retry_count = 1

\* C16: markCompleted moves a feature to completed only when it is pending
\* in the store, then sets completed_at to the time of the call and changes
\* nothing else; skip, retry, re-queue and the reorderings never write
\* completed_at.
C16_CompletedOnlyFromPending ==
    [][ \A id \in DOMAIN forge_features :
          /\ (last'.op = "markCompleted" /\ last'.id = id) =>
                forge_features' =
                  IF forge_features[id].status = "pending"
                  THEN [forge_features EXCEPT
                          ![id].status = "completed",
                          ![id].completed_at = Some(clock')]
                  ELSE forge_features
          /\ ( /\ last'.op \in {"skipFeature", "retryFeature", "moveToTop", "moveUp"}
               /\ id \in DOMAIN forge_features' ) =>
                forge_features'[id].completed_at = forge_features[id].completed_at
      ]_vars

\* C17: re-queueing a feature that is skipped (in the store and in the row
\* the operator pressed) sets its status to pending and changes nothing else: retry_count, error_message, priority and the timestamps
\* keep their values.
C17_RequeueChangesStatusOnly ==
    [][ \A id \in DOMAIN forge_features :
          ( /\ last'.op = "retryFeature"
            /\ last'.id = id
            /\ forge_features[id].status = "skipped"
            /\ \E i \in DOMAIN features :
                  features[i].id = id /\ features[i].status = "skipped" ) =>
                forge_features' = [forge_features EXCEPT ![id].status = "pending"]
      ]_vars

Deletable == {"pending", "failed", "skipped"}

\* C18: a delete is only issued for a feature that the client's snapshot and
\* the store show as pending, failed or skipped, also when a poll changed
\* the status while the action sheet stayed open; it removes exactly the
\* record with that id and leaves the other records unchanged.
C18_DeleteOnlyPendingFailedSkipped ==
    [][ (last'.op = "deleteFeature" /\ last'.id \in DOMAIN forge_features) =>
          /\ SelectedStatus \in Deletable
          /\ forge_features[last'.id].status \in Deletable
          /\ forge_features' =
               [id \in DOMAIN forge_features \ {last'.id} |-> forge_features[id]]
      ]_vars

Building == {i \in DOMAIN features : features[i].status = "in_progress"}

\* C19: the current feature is defined exactly when some feature of the view
\* is in_progress, and it is then the in_progress record that was created
\* first (ids are handed out in creation order), whatever the priorities
\* are; two in_progress records still give one current feature.
C19_CurrentIsFirstCreated ==
    IF Building = {}
    THEN currentFeature = None
    ELSE /\ currentFeature # None
         /\ currentFeature[1].id = Min({features[i].id : i \in Building})

\* C20: the features view is ascending by priority, and features of equal
\* priority appear in creation order (ids are handed out in creation order),
\* after any sequence of inserts and reorders.
C20_ViewOrderedByPriorityThenCreation ==
    \A i, j \in DOMAIN features :
        i < j =>
            \/ features[i].priority < features[j].priority
            \/ /\ features[i].priority = features[j].priority
               /\ features[i].id < features[j].id

\* the value the observer is to hold for key after a poll that read config
AfterPoll(config, key, default) ==
    IF key \in DOMAIN config THEN config[key] = "true" ELSE default

\* C21: when the config query of a poll resolves, a key the query did not
\* find has its default in the observer (enginePaused TRUE, autoApprove TRUE,
\* skipOnError FALSE), a key it found has its stored value, and the load
\* completes.
C21_MissingKeysFallBackToDefaults ==
    [][ \A p \in polls :
          (p.phase = "config" /\ polls' = polls \ {p}) =>
              /\ enginePaused' = AfterPoll(p.config, "engine_paused", TRUE)
              /\ autoApprove' = AfterPoll(p.config, "auto_approve", TRUE)
              /\ skipOnError' = AfterPoll(p.config, "skip_on_error", FALSE)
              /\ ~loading'
      ]_vars

Counts == <<completed, pending, failed, inProgress, total>>

\* C22: a features query that comes back without data leaves the view and
\* the counts derived from it as they were, and its poll goes on to the logs
\* query; when a config query then brings data, every key it found is
\* loaded and the load completes.
C22_FailedFeaturesQueryKeepsView ==
    [][ /\ last' = QueryFailed =>
              /\ features' = features
              /\ Counts' = Counts
              /\ \E p \in polls :
                    /\ p.phase = "features"
                    /\ polls' = (polls \ {p}) \cup {LogsQuery}
        /\ \A p \in polls :
              ( /\ p.phase = "config"
                /\ polls' = polls \ {p}
                /\ forge_config = p.config
                /\ "engine_paused" \in DOMAIN p.config ) =>
                  /\ enginePaused' = (forge_config["engine_paused"] = "true")
                  /\ ~loading'
      ]_vars

\* a features query has just failed on a loaded view that the store has left
\* behind
C22_Witness ==
    /\ last = QueryFailed
    /\ features # <<>>
    /\ features \notin SelectOrdered(forge_features)
    /\ \E p \in polls : p.phase = "logs"

\* C23: every completed moveUp lowers the stored priority of its feature by
\* exactly 1.5 from the priority the store held just before the write, so
\* that two moveUp calls on one feature lower it by 3.0 in total.
C23_MoveUpLowersStoredPriority ==
    [][ \A id \in DOMAIN forge_features :
          ( /\ last'.op \in {"moveUp", "otherMoveUp"}
            /\ last'.result = "ok"
            /\ last'.id = id ) =>
                /\ id \in DOMAIN forge_features'
                /\ forge_features'[id].priority =
                     forge_features[id].priority - OneAndAHalf
      ]_vars

\* the pending records of table that come before record id in ascending
\* priority order
PendingBefore(table, id) ==
    {j \in DOMAIN table : /\ table[j].status = "pending"
                          /\ table[j].priority < table[id].priority}

\* the pending record just before record id, when there is one
Preceding(table, id) ==
    {j \in PendingBefore(table, id) :
        \A k \in PendingBefore(table, id) : table[k].priority <= table[j].priority}

\* C24: a moveUp on a pending feature X leaves no pending feature before X
\* that was not before it, puts X strictly before the pending feature just
\* before it when their priorities are less than 1.5 apart, and keeps the
\* set of features.
C24_MoveUpNeverMovesLater ==
    [][ \A x \in DOMAIN forge_features :
          ( /\ last'.op = "moveUp"
            /\ last'.result = "ok"
            /\ last'.id = x
            /\ forge_features[x].status = "pending" ) =>
                /\ DOMAIN forge_features' = DOMAIN forge_features
                /\ PendingBefore(forge_features', x) \subseteq
                     PendingBefore(forge_features, x)
                /\ \A y \in Preceding(forge_features, x) :
                      forge_features[x].priority - forge_features[y].priority
                          < OneAndAHalf
                      => forge_features'[x].priority < forge_features'[y].priority
      ]_vars

Reorderings == {"moveToTop", "moveUp", "otherMoveToTop", "otherMoveUp"}

OtherColumns == DOMAIN SeedRow(1, "pending") \ {"priority"}

\* C25: a moveToTop or moveUp writes the priority of the record it names
\* and nothing else: the other records are unchanged, every record keeps
\* its other columns, and the records it did not name keep their order.
C25_ReorderWritesPriorityOnly ==
    [][ last'.op \in Reorderings =>
          /\ DOMAIN forge_features' = DOMAIN forge_features
          /\ \A id \in DOMAIN forge_features :
                /\ id # last'.id => forge_features'[id] = forge_features[id]
                /\ \A c \in OtherColumns :
                      forge_features'[id][c] = forge_features[id][c]
          /\ \A i, j \in DOMAIN forge_features \ {last'.id} :
                (forge_features'[i].priority < forge_features'[j].priority)
                  <=> (forge_features[i].priority < forge_features[j].priority)
      ]_vars

\* a moveUp has lowered the priority of a feature that the worker had
\* claimed since the snapshot, next to a record it did not name
C25_Witness ==
    /\ last.op = "moveUp" /\ last.result = "ok"
    /\ last.id \in DOMAIN forge_features
    /\ forge_features[last.id].status = "in_progress"
    /\ forge_features[last.id].priority = Num(last.id) - OneAndAHalf
    /\ \E j \in DOMAIN forge_features : j # last.id

WorkerOps == {"workerClaims", "workerCompletes", "workerFails"}

InProgressIds(table) == {id \in DOMAIN table : table[id].status = "in_progress"}

\* C26: a step of the operator (any handler run that is not the worker's)
\* leaves in_progress only records that were in_progress, so the number of
\* in_progress features in the store does not grow.
C26_OperatorNeverWritesInProgress ==
    [][ last'.op \notin WorkerOps \cup {"none"} =>
          /\ InProgressIds(forge_features') \subseteq InProgressIds(forge_features)
          /\ Cardinality(InProgressIds(forge_features'))
               <= Cardinality(InProgressIds(forge_features))
      ]_vars

\* the operator has skipped a feature while the worker builds another
C26_Witness ==
    /\ last.op = "skipFeature" /\ last.result = "ok"
    /\ last.id \in DOMAIN forge_features
    /\ forge_features[last.id].status = "skipped"
    /\ InProgressIds(forge_features) # {}

\* forge_config after one write of value to key: the other rows are as they
\* were
WroteKey(key, value) ==
    /\ DOMAIN forge_config' = DOMAIN forge_config \cup {key}
    /\ forge_config'[key] = value
    /\ \A k \in DOMAIN forge_config \ {key} : forge_config'[k] = forge_config[k]

\* C27: a toggleEngine whose call succeeds writes the engine_paused row and
\* nothing else: no feature record changes and no other row of forge_config
\* does; an updateConfig likewise writes the row of its key only.
C27_ToggleWritesOneKey ==
    [][ /\ (last'.op = "toggleEngine" /\ last'.result = "ok") =>
              /\ WroteKey("engine_paused", String(~enginePaused))
              /\ UNCHANGED <<forge_features, forge_sessions>>
        /\ (last'.op = "updateConfig" /\ last'.result = "ok") =>
              /\ \/ WroteKey("auto_approve", String(~autoApprove))
                 \/ WroteKey("skip_on_error", String(~skipOnError))
              /\ "engine_paused" \in DOMAIN forge_config =>
                    /\ "engine_paused" \in DOMAIN forge_config'
                    /\ forge_config'.engine_paused = forge_config.engine_paused
              /\ UNCHANGED <<forge_features, forge_sessions>>
      ]_vars

\* the engine was switched on while the worker builds a feature
C27_Witness ==
    /\ last.op = "toggleEngine" /\ last.result = "ok"
    /\ forge_config.engine_paused = "false"
    /\ \E id \in DOMAIN forge_features : forge_features[id].status = "in_progress"

\* the text has a line that begins with marker
HasLine(text, marker) ==
    \E i \in DOMAIN text : text[i] = marker /\ (i = 1 \/ text[i - 1] = NL)

\* the priority addFeature is to write, from the view at the call
ComputedPriority(startNow) ==
    IF startNow THEN Num(0)
    ELSE IF pending = 0 THEN BaselinePriority
    ELSE Max({features[i].priority :
                i \in {k \in DOMAIN features : features[k].status = "pending"}})
         + Num(1)

\* C28: a successful addFeature inserts one new record and changes no
\* existing one; the record is pending, has the computed priority and the
\* parsed name and instructions, the parsed category or crm when the text
\* has no CATEGORY: line, and the parsed description or the name when the
\* text has no DESCRIPTION: line.
C28_AddInsertsOneParsedRecord ==
    [][ (last'.op = "addFeature" /\ last'.result = "ok") =>
          LET prs == parseSpec(specInput)
              id == last'.id
          IN  /\ id \notin DOMAIN forge_features
              /\ DOMAIN forge_features' = DOMAIN forge_features \cup {id}
              /\ \A j \in DOMAIN forge_features :
                    forge_features'[j] = forge_features[j]
              /\ forge_features'[id].status = "pending"
              /\ forge_features'[id].priority = ComputedPriority(last'.startNow)
              /\ forge_features'[id].name = prs.name
              /\ forge_features'[id].instructions = prs.instructions
              /\ forge_features'[id].category =
                   IF HasLine(specInput, "CATEGORY:") THEN prs.category
                   ELSE <<"crm">>
              /\ ~HasLine(specInput, "DESCRIPTION:") =>
                    forge_features'[id].description = prs.name
              /\ (HasLine(specInput, "DESCRIPTION:") /\ prs.description # <<>>) =>
                    forge_features'[id].description = prs.description
      ]_vars

\* a feature with its own category, description and instructions was added
\* behind a feature added from a name alone
C28_Witness ==
    /\ Wrote("addFeature")
    /\ forge_features[last.id].category = <<"ui">>
    /\ forge_features[last.id].description = <<"does">>
    /\ forge_features[last.id].instructions = <<"step">>
    /\ \E j \in DOMAIN forge_features :
          /\ j # last.id
          /\ forge_features[j].category = <<"crm">>
          /\ forge_features[j].description = <<"Bar">>
          /\ forge_features[j].name = <<"Bar">>

\* the lines of the block after its separator that look like a marker line
\* or a separator
MarkerLikeLines ==
    {i \in DOMAIN blockParts.lines :
        \/ StartsWith(blockParts.lines[i], "NAME:")
        \/ StartsWith(blockParts.lines[i], "CATEGORY:")
        \/ StartsWith(blockParts.lines[i], "DESCRIPTION:")
        \/ blockParts.lines[i] = <<"---">>}

\* C29: the instructions parseSpec returns are the lines after the first
\* separator, joined as they are; a line among them that begins with a
\* marker or is a separator is part of the instructions and leaves the name,
\* the category and the description to the lines before the separator.
C29_InstructionsVerbatim ==
    parsed # None =>
        /\ parsed[1].instructions = JoinLines(blockParts.lines)
        /\ MarkerLikeLines # {} =>
              /\ parsed[1].name = Trim(blockParts.name)
              /\ parsed[1].category = Trim(blockParts.category)
              /\ parsed[1].description = Trim(blockParts.description)

\* C30: addFeature writes engine_paused, and clears the local paused flag,
\* only in a start-now call made while the local flag is paused and only
\* once its insert has succeeded, and the value it writes is false; a call
\* rejected for its name or whose insert fails leaves the store, the local
\* flag, the form and its input as they are.
C30_StartNowUnpausesAfterInsert ==
    [][ last'.op = "addFeature" =>
          /\ last'.result \in {"invalid", "error"} =>
                UNCHANGED <<forge_features, forge_config, enginePaused,
                            specInput, showAddForm>>
          /\ (forge_config' # forge_config \/ enginePaused' # enginePaused) =>
                /\ last'.result = "ok"
                /\ last'.startNow
                /\ enginePaused /\ ~enginePaused'
                /\ last'.id \in DOMAIN forge_features' \ DOMAIN forge_features
                /\ forge_config' \in
                     {forge_config,
                      Upserted(forge_config, "engine_paused", "false", TRUE)}
      ]_vars

\* the insert of a start-now addFeature failed while the engine was paused:
\* the form is still open on its text
C30_Witness ==
    /\ last.op = "addFeature" /\ last.result = "error" /\ last.startNow
    /\ enginePaused
    /\ showAddForm
    /\ HasName(specInput)
    /\ "engine_paused" \notin DOMAIN forge_config

\* the client's flag for key is the value forge_config holds for it
FlagIsStored(key, flag) ==
    key \in DOMAIN forge_config => flag = (forge_config[key] = "true")

\* C31: once a toggleEngine or an updateConfig has written a key (every call
\* succeeds and the client is the only writer of forge_config), the client's
\* flag equals the stored value in every later state, also when a poll that
\* read the earlier value resolves after the write.
C31_LocalFlagFollowsStore ==
    /\ FlagIsStored("engine_paused", enginePaused)
    /\ FlagIsStored("auto_approve", autoApprove)
    /\ FlagIsStored("skip_on_error", skipOnError)

====
